---- MODULE Spec2Model ----
(***************************************************************************)
(* Model of mesa/visualization/modules/SVGGridVisualization.py: the        *)
(* SVGGrid visualization element (constructor and render).                 *)
(*                                                                         *)
(* Python objects are modelled with reference semantics: a dictionary      *)
(* lives in `heap` and lists hold references into it, so that item         *)
(* assignment through one reference is seen through every other one.       *)
(* Strings that are formatted or parsed are sequences of one-character     *)
(* strings.                                                                *)
(***************************************************************************)
EXTENDS Integers, Sequences, FiniteSets, TLC

VARIABLES
    self,        \* the SVGGrid instance (its fields), or NoInstance
    ctor_args,   \* the arguments the constructor was called with
    agents,      \* agent id -> [kind, pos]: the agent objects of the model
    schedule,    \* model.schedule.agents: a sequence of agent ids
    heap,        \* reference -> dictionary contents
    outcome,     \* how the last render call ended (frame returned or raised)
    origin,      \* per frame entry of the last render: the schedule index it came from
                 \* and the mapping as the portrayal function handed it back
    calls,       \* log of the portrayal_method invocations of the last render
    pre,         \* the heap, agents and instance as they were when the last render began
    held,        \* a frame returned by an earlier step and its contents at that time
    renders,     \* number of render calls made so far
    phase        \* "render": a render is due; "step": the model advances next

vars == <<self, ctor_args, agents, schedule, heap, outcome, origin, calls, pre,
          held, renders, phase>>

----------------------------------------------------------------------------
(* Bounds of the model *)

MaxLen == 3          \* longest agent sequence
MaxCoord == 1        \* grid columns are 0..MaxCoord
MaxRenders == 2      \* render calls per behaviour
MaxDim == 2          \* small grid / canvas dimensions tried in the constructor

(* Program constants *)

DefaultCanvas == 500     \* canvas_width=500, canvas_height=500
UsageGrid == 10          \* gridwidth = 10, gridheight = 10 in the usage guide

AgentIds == {1, 2}          \* agent.unique_id
Rows == {0, 1}
Cells == (0..MaxCoord) \X Rows
NonePos == <<>>          \* agent.pos of an agent that is not placed (None)
Omitted == <<>>          \* an optional argument left out of the call; <<v>> when given

----------------------------------------------------------------------------
(* str() of an integer, and str.format over a template *)

Digit(d) == CASE d = 0 -> "0" [] d = 1 -> "1" [] d = 2 -> "2" [] d = 3 -> "3"
              [] d = 4 -> "4" [] d = 5 -> "5" [] d = 6 -> "6" [] d = 7 -> "7"
              [] d = 8 -> "8" [] d = 9 -> "9"

RECURSIVE StrNat(_)
StrNat(n) == IF n < 10 THEN <<Digit(n)>>
             ELSE Append(StrNat(n \div 10), Digit(n % 10))

Str(n) == IF n < 0 THEN <<"-">> \o StrNat(-n) ELSE StrNat(n)

RECURSIVE Format(_, _)
Format(template, args) ==
    IF template = <<>> THEN <<>>
    ELSE IF Len(template) >= 2 /\ template[1] = "{" /\ template[2] = "}"
         THEN Str(Head(args)) \o Format(SubSeq(template, 3, Len(template)), Tail(args))
         ELSE <<template[1]>> \o Format(Tail(template), args)

NewElementTemplate ==
    <<"n","e","w"," ","S","V","G","G","r","i","d","M","o","d","u","l","e","(",
      "{","}",","," ","{","}",","," ","{","}",","," ","{","}",")">>

JsPrefix ==
    <<"w","i","n","d","o","w",".","o","n","l","o","a","d"," ","="," ",
      "f","u","n","c","t","i","o","n","(",")"," ","{",
      "e","l","e","m","e","n","t","s",".","p","u","s","h","(">>

JsSuffix == <<")",";","}",";">>

----------------------------------------------------------------------------
(* SVGGrid.__init__ *)

NoInstance == [constructed |-> FALSE]

\* binding of a parameter that has a default value
Arg(opt, default) == IF opt = Omitted THEN default ELSE opt[1]

\* a plausible slip: the renderer is given the dimensions in the order the
\* constructor receives them (grid first)
SVGGrid__init__GridFirst(portrayal_method, grid_width, grid_height, canvas_width, canvas_height) ==
    LET cw == Arg(canvas_width, DefaultCanvas)
        ch == Arg(canvas_height, DefaultCanvas)
        new_element == Format(NewElementTemplate, <<grid_width, grid_height, cw, ch>>)
    IN  [constructed |-> TRUE,
         portrayal_method |-> portrayal_method,
         grid_width |-> grid_width,
         grid_height |-> grid_height,
         canvas_width |-> cw,
         canvas_height |-> ch,
         js_code |-> JsPrefix \o new_element \o JsSuffix]

SVGGrid__init__(portrayal_method, grid_width, grid_height, canvas_width, canvas_height) ==
    LET cw == Arg(canvas_width, DefaultCanvas)
        ch == Arg(canvas_height, DefaultCanvas)
        new_element == Format(NewElementTemplate, <<cw, ch, grid_width, grid_height>>)
    IN  [constructed |-> TRUE,
         portrayal_method |-> portrayal_method,
         grid_width |-> grid_width,
         grid_height |-> grid_height,
         canvas_width |-> cw,
         canvas_height |-> ch,
         js_code |-> JsPrefix \o new_element \o JsSuffix]

----------------------------------------------------------------------------
(* Python dictionaries and lists *)

\* d[k] = v
SetItemAnew(d, k, v) == [j \in {k} |-> v]
SetItem(d, k, v) == [j \in DOMAIN d \cup {k} |-> IF j = k THEN v ELSE d[j]]

\* bool(portrayal): None and the empty mapping are falsy
TruthyNotNone(h, res) == res.tag = "dict"
Truthy(h, res) == res.tag = "dict" /\ DOMAIN h[res.ref] # {}

\* list.append
ListPrepend(list, e) == <<e>> \o list
ListAppendUnique(list, e) ==
    IF \E i \in 1..Len(list) : list[i] = e THEN list ELSE Append(list, e)
ListAppend(list, e) == Append(list, e)

\* pos[i] (0-based); subscripting None raises TypeError
CanSubscript(pos) == pos # NonePos
GetItem(pos, i) == pos[i + 1]

----------------------------------------------------------------------------
(* The caller's side: agents and the portrayal function handed to SVGGrid *)

\* agent_portrayal of the usage guide: a new mapping on every call, chosen by
\* agent.some_variable and agent.some_other_variable. Floats are written as
\* their repr ("0.9").
PortrayalOf(agent) ==
    IF agent.some_variable
    THEN [Filled |-> "true", Shape |-> "circle", Layer |-> -1,
          text |-> "A" \o ToString(agent.unique_id), text_color |-> "white",
          Color |-> "rgb(178, 34, 34)", r |-> "0.9"]
    ELSE IF agent.some_other_variable = "some_value"
    THEN [Filled |-> "true", Shape |-> "square", Layer |-> 0,
          text |-> agent.unique_id, text_color |-> "#FFF",
          Color |-> "blue", scale |-> "0.7"]
    ELSE IF agent.some_other_variable = "some_other_value"
    THEN [Filled |-> "true", Shape |-> "triangle", Layer |-> 1,
          text |-> agent.unique_id, text_color |-> "white",
          Color |-> "green", scale |-> "0.5"]
    ELSE [Filled |-> "true", Shape |-> "mysvgfile.svg", Layer |-> 2,
          text |-> agent.unique_id, text_color |-> "yellow",
          Color |-> "#000000", scale |-> "0.8"]

agent_portrayal(h, agent) ==
    [tag |-> "dict", ref |-> Len(h) + 1, heap |-> Append(h, PortrayalOf(agent))]

\* Another portrayal function a caller may pass: per agent it answers None, an
\* empty mapping, a new mapping, one mapping it keeps and hands back again, or
\* it raises.
Kinds == {"none", "empty", "fresh", "kept", "raise"}

FreshDict == [Shape |-> "circle", Color |-> "red", Layer |-> 0]

\* the kept mapping carries x and y of its own, and both r and scale
KeptDict == [Shape |-> "square", Layer |-> -1, r |-> "0.9", scale |-> "0.7",
             x |-> 99, y |-> 99]

EmptyDict == [k \in {} |-> 0]

KeptHeap == <<KeptDict>>
KeptRef == Len(KeptHeap)

PortrayalFunctionError == "PortrayalFunctionError"
NoExc == "none"

caller_portrayal(h, agent) ==
    CASE agent.kind = "none"   -> [tag |-> "None", heap |-> h]
      [] agent.kind = "empty"  -> [tag |-> "dict", ref |-> Len(h) + 1, heap |-> Append(h, EmptyDict)]
      [] agent.kind = "fresh"  -> [tag |-> "dict", ref |-> Len(h) + 1, heap |-> Append(h, FreshDict)]
      [] agent.kind = "kept"   -> [tag |-> "dict", ref |-> KeptRef, heap |-> h]
      [] agent.kind = "raise"  -> [tag |-> "raise", exc |-> PortrayalFunctionError, heap |-> h]

PortrayalMethods == {"agent_portrayal", "caller_portrayal"}

\* the mappings a portrayal function holds before it is first called
InitHeap(portrayal_method) ==
    IF portrayal_method = "caller_portrayal" THEN KeptHeap ELSE <<>>

\* self.portrayal_method(agent)
CallPortrayal(portrayal_method, h, agent) ==
    IF portrayal_method = "agent_portrayal" THEN agent_portrayal(h, agent)
    ELSE caller_portrayal(h, agent)

----------------------------------------------------------------------------
(* SVGGrid.render *)

\* an exception leaves the loop and the method
RaiseSwallowed(st, exc) == st
Raise(st, exc) == [st EXCEPT !.exc = exc]

\* one iteration of "for agent in model.schedule.agents"
LoopBody(this, ags, sched, i, st) ==
    LET agent == ags[sched[i]]
        res == CallPortrayal(this.portrayal_method, st.heap, agent)
        called == [st EXCEPT !.heap = res.heap,
                             !.calls = Append(@, [index |-> i, tag |-> res.tag,
                                                  ref |-> IF res.tag = "dict" THEN res.ref ELSE 0])]
    IN  IF res.tag = "raise" THEN Raise(called, res.exc)
        ELSE IF ~Truthy(called.heap, res) THEN called
        ELSE IF ~CanSubscript(agent.pos) THEN Raise(called, "TypeError")
        ELSE LET given == called.heap[res.ref]
                 withx == SetItem(given, "x", GetItem(agent.pos, 0))
                 withxy == SetItem(withx, "y", GetItem(agent.pos, 1))
             IN  [called EXCEPT
                    !.heap = [@ EXCEPT ![res.ref] = withxy],
                    !.grid_state = ListAppend(@, res.ref),
                    !.origin = ListAppend(@, [index |-> i, agent |-> sched[i],
                                              given |-> given])]

RECURSIVE RenderLoop(_, _, _, _, _)
RenderLoop(this, ags, sched, i, st) ==
    IF i > Len(sched) \/ st.exc # NoExc THEN st
    ELSE RenderLoop(this, ags, sched, i + 1, LoopBody(this, ags, sched, i, st))

render(this, ags, sched, h) ==
    LET fin == RenderLoop(this, ags, sched, 1,
                          [heap |-> h, grid_state |-> <<>>, origin |-> <<>>,
                           calls |-> <<>>, exc |-> NoExc])
    IN  [heap |-> fin.heap,
         origin |-> fin.origin,
         calls |-> fin.calls,
         outcome |-> IF fin.exc = NoExc
                     THEN [kind |-> "return", value |-> fin.grid_state]
                     ELSE [kind |-> "raise", exc |-> fin.exc]]

----------------------------------------------------------------------------
(* State machine *)

Range(seq) == {seq[i] : i \in 1..Len(seq)}
SeqsUpTo(S, n) == UNION {[1..k -> S] : k \in 0..n}
Positions == Cells \cup {NonePos}
Deref(h, frame) == [i \in 1..Len(frame) |-> h[frame[i]]]

NoCall == [kind |-> "none"]
NoHeld == [frame |-> <<>>, contents |-> <<>>]

UsageArgs(pm) == <<pm, UsageGrid, UsageGrid, <<DefaultCanvas>>, <<DefaultCanvas>>>>

\* the agents a model may hold: those of the usage guide's model under
\* agent_portrayal, agents with a kind under caller_portrayal
AgentStates(pm, id) ==
    IF pm = "agent_portrayal"
    THEN {[unique_id |-> id, some_variable |-> v[1], some_other_variable |-> v[2], pos |-> p] :
              v \in {<<TRUE, "some_value">>, <<FALSE, "some_value">>,
                     <<FALSE, "some_other_value">>, <<FALSE, "neither">>},
              p \in Positions}
    ELSE {[unique_id |-> id, kind |-> k, pos |-> p] : k \in Kinds, p \in Positions}

Init ==
    /\ \E pm \in PortrayalMethods :
           /\ ctor_args = UsageArgs(pm)
           /\ self = SVGGrid__init__(pm, UsageGrid, UsageGrid, <<DefaultCanvas>>, <<DefaultCanvas>>)
           /\ schedule \in SeqsUpTo(AgentIds, MaxLen)
           /\ agents \in {f \in [Range(schedule) -> UNION {AgentStates(pm, id) : id \in AgentIds}] :
                              \A id \in Range(schedule) : f[id].unique_id = id}
           /\ heap = InitHeap(pm)
    /\ outcome = NoCall
    /\ origin = <<>>
    /\ calls = <<>>
    /\ pre = [heap |-> heap, agents |-> agents, self |-> self]
    /\ held = NoHeld
    /\ renders = 0
    /\ phase = "render"

\* the server asks the element for the frame of the current step
Render ==
    /\ phase = "render"
    /\ renders < MaxRenders
    /\ LET r == render(self, agents, schedule, heap)
       IN  /\ heap' = r.heap
           /\ outcome' = r.outcome
           /\ origin' = r.origin
           /\ calls' = r.calls
    /\ pre' = [heap |-> heap, agents |-> agents, self |-> self]
    /\ held' = IF outcome.kind = "return"
               THEN [frame |-> outcome.value, contents |-> Deref(heap, outcome.value)]
               ELSE held
    /\ renders' = renders + 1
    /\ phase' = "step"
    /\ UNCHANGED <<self, ctor_args, agents, schedule>>

\* where an agent can be after one step of the model: an agent that was not
\* placed is placed, a placed one moves to the next column (the grid wraps)
Moves(pos) ==
    IF pos = NonePos THEN {<<0, 0>>}
    ELSE {<<(pos[1] + 1) % (MaxCoord + 1), pos[2]>>}

\* the model advances one step: one scheduled agent moves
Step ==
    /\ phase = "step"
    /\ renders < MaxRenders
    /\ \E a \in Range(schedule) : \E c \in Moves(agents[a].pos) :
           agents' = [agents EXCEPT ![a].pos = c]
    /\ phase' = "render"
    /\ UNCHANGED <<self, ctor_args, schedule, heap, outcome, origin, calls, pre,
                   held, renders>>

Next == Render \/ Step

Spec == Init /\ [][Next]_vars

(* The constructor on its own, over a range of arguments *)

GridDims == (1..MaxDim) \cup {UsageGrid}
CanvasArgs == {Omitted} \cup {<<v>> : v \in (0..MaxDim) \cup {DefaultCanvas}}

CtorInit ==
    /\ self = NoInstance
    /\ ctor_args = <<>>
    /\ schedule = <<>>
    /\ agents = <<>>
    /\ heap = <<>>
    /\ outcome = NoCall
    /\ origin = <<>>
    /\ calls = <<>>
    /\ pre = [heap |-> <<>>, agents |-> <<>>, self |-> NoInstance]
    /\ held = NoHeld
    /\ renders = 0
    /\ phase = "construct"

Construct ==
    /\ phase = "construct"
    /\ \E gw \in GridDims, gh \in GridDims, cw \in CanvasArgs, ch \in CanvasArgs :
           /\ ctor_args' = <<"agent_portrayal", gw, gh, cw, ch>>
           /\ self' = SVGGrid__init__("agent_portrayal", gw, gh, cw, ch)
    /\ phase' = "render"
    /\ UNCHANGED <<agents, schedule, heap, outcome, origin, calls, pre, held, renders>>

CtorNext == Construct

SpecCtor == CtorInit /\ [][CtorNext]_vars

----------------------------------------------------------------------------
(* Vocabulary of the properties *)

Returned == outcome.kind = "return"
Frame == outcome.value

\* the agent at schedule index i, as it was when the last render ran
AgentAt(i) == pre.agents[schedule[i]]

\* the portrayal function's result for the agent is neither None nor empty
NonAbsent(agent) ==
    self.portrayal_method = "agent_portrayal" \/ agent.kind \in {"fresh", "kept"}

\* the portrayal function raises for the agent
Raises(agent) == self.portrayal_method = "caller_portrayal" /\ agent.kind = "raise"

VisibleIndices == {i \in 1..Len(schedule) : NonAbsent(AgentAt(i))}

CoordKeys == {"x", "y"}

\* the arguments between "SVGGridModule(" and the next ")" of a bootstrap string
ModuleCall == <<"S","V","G","G","r","i","d","M","o","d","u","l","e","(">>

IndexOf(s, pat) ==
    CHOOSE i \in 1..Len(s) :
        /\ i + Len(pat) - 1 <= Len(s)
        /\ SubSeq(s, i, i + Len(pat) - 1) = pat
        /\ \A j \in 1..(i - 1) : SubSeq(s, j, j + Len(pat) - 1) # pat

CallArgText(js) ==
    LET from == IndexOf(js, ModuleCall) + Len(ModuleCall)
        to == CHOOSE j \in from..Len(js) :
                  js[j] = ")" /\ \A k \in from..(j - 1) : js[k] # ")"
    IN  SubSeq(js, from, to - 1)

\* split on ", "
RECURSIVE SplitArgs(_, _)
SplitArgs(s, cur) ==
    IF s = <<>> THEN <<cur>>
    ELSE IF Len(s) >= 2 /\ s[1] = "," /\ s[2] = " "
         THEN <<cur>> \o SplitArgs(SubSeq(s, 3, Len(s)), <<>>)
         ELSE SplitArgs(Tail(s), Append(cur, s[1]))

DigitValue(c) == CHOOSE d \in 0..9 : Digit(d) = c

RECURSIVE ParseNat(_)
ParseNat(s) == IF Len(s) = 1 THEN DigitValue(s[1])
               ELSE 10 * ParseNat(SubSeq(s, 1, Len(s) - 1)) + DigitValue(s[Len(s)])

CallParameters(js) ==
    LET parts == SplitArgs(CallArgText(js), <<>>)
    IN  [i \in 1..Len(parts) |-> ParseNat(parts[i])]

----------------------------------------------------------------------------
(* Properties *)

\* C1: every entry of a returned frame carries the x and y of the agent it
\* was made for.
C1_EntryCoordsAreAgentPos ==
    Returned =>
        \A i \in 1..Len(Frame) :
            /\ heap[Frame[i]].x = pre.agents[origin[i].agent].pos[1]
            /\ heap[Frame[i]].y = pre.agents[origin[i].agent].pos[2]

\* C2: a returned frame has one entry per scheduled agent whose portrayal is
\* neither None nor empty; so it is no longer than the agent sequence and is
\* empty for an empty agent sequence.
C2_LengthIsNonAbsentCount ==
    Returned =>
        /\ Len(Frame) = Cardinality(VisibleIndices)
        /\ Len(Frame) <= Len(schedule)
        /\ (schedule = <<>> => Frame = <<>>)

C2_Witness ==
    /\ Returned
    /\ Len(Frame) = 2
    /\ Len(schedule) = 3
    /\ self.portrayal_method = "caller_portrayal"
    /\ \E i \in 1..Len(schedule) : AgentAt(i).kind = "empty"

\* C3: a returned frame is the agent sequence filtered by non-absence, in the
\* order of the agent sequence: entries come from increasing schedule indices
\* and each entry is the mapping handed back for that index.
C3_OrderPreserved ==
    Returned =>
        /\ Len(origin) = Len(Frame)
        /\ \A i, j \in 1..Len(Frame) : i < j => origin[i].index < origin[j].index
        /\ \A i \in 1..Len(Frame) :
               /\ origin[i].index \in VisibleIndices
               /\ calls[origin[i].index].ref = Frame[i]

C3_Witness ==
    /\ Returned
    /\ Len(Frame) = 2
    /\ Len(schedule) = 3
    /\ ~NonAbsent(AgentAt(2))
    /\ Frame[1] # Frame[2]
    /\ origin[1].index + 1 < origin[2].index

\* C4: render writes the keys x and y only: every other key of the mapping the
\* portrayal function handed back is in the frame entry with the same value,
\* no other key appears, and no mapping that existed before the call has any
\* other key added, removed or rewritten.
C4_OtherKeysPassThrough ==
    /\ Returned =>
          \A i \in 1..Len(Frame) :
              LET d == heap[Frame[i]]
                  given == origin[i].given
              IN  /\ DOMAIN d = DOMAIN given \cup CoordKeys
                  /\ \A k \in DOMAIN given \ CoordKeys : d[k] = given[k]
    /\ \A ref \in 1..Len(pre.heap) :
          /\ DOMAIN heap[ref] \ CoordKeys = DOMAIN pre.heap[ref] \ CoordKeys
          /\ \A k \in DOMAIN pre.heap[ref] \ CoordKeys : heap[ref][k] = pre.heap[ref][k]

C4_Witness ==
    /\ Returned
    /\ \E i, j \in 1..Len(Frame) :
           /\ {"r", "scale", "Layer"} \subseteq DOMAIN heap[Frame[i]]
           /\ heap[Frame[i]].r # heap[Frame[i]].scale
           /\ origin[i].given.x # heap[Frame[i]].x
           /\ "x" \notin DOMAIN origin[j].given

\* C5: after a render call every mapping, agent and instance field that existed
\* before the call has the contents it had before the call.
C5_NoSideEffects ==
    /\ \A ref \in 1..Len(pre.heap) : heap[ref] = pre.heap[ref]
    /\ (phase = "step" => agents = pre.agents)
    /\ self = pre.self

\* C6: when the portrayal function raises for an agent, that call is the last
\* one of the render, the same exception leaves render, and no frame is returned.
C6_PortrayalErrorPropagates ==
    LET raising == {i \in 1..Len(calls) : calls[i].tag = "raise"}
    IN  raising # {} =>
            /\ raising = {Len(calls)}
            /\ calls[Len(calls)].index = Len(calls)
            /\ outcome = [kind |-> "raise", exc |-> PortrayalFunctionError]

C6_Witness ==
    /\ outcome = [kind |-> "raise", exc |-> PortrayalFunctionError]
    /\ Len(calls) = 2
    /\ Len(schedule) = 3
    /\ NonAbsent(AgentAt(1))
    /\ NonAbsent(AgentAt(3))

\* C7: when the portrayal function returns normally for every scheduled agent,
\* render returns a frame (it raises nothing of its own).
C7_RenderNeverRaises ==
    (outcome # NoCall /\ \A i \in 1..Len(schedule) : ~Raises(AgentAt(i)))
        => Returned

\* C8: render leaves the instance's fields alone, and a frame returned for an
\* earlier step keeps the contents it was returned with.
C8_EarlierFrameUntouched ==
    /\ self = pre.self
    /\ Deref(heap, held.frame) = held.contents

\* C9: the bootstrap string's SVGGridModule call carries exactly four
\* parameters: canvas width, canvas height, grid width, grid height, as passed
\* to the constructor, the canvas dimensions being 500 when left out.
C9_BootstrapParameters ==
    self.constructed =>
        CallParameters(self.js_code)
            = <<Arg(ctor_args[4], 500), Arg(ctor_args[5], 500), ctor_args[2], ctor_args[3]>>

C9_Witness ==
    /\ self.constructed
    /\ ctor_args[4] = Omitted
    /\ ctor_args[5] # Omitted
    /\ ctor_args[2] # ctor_args[3]
    /\ ctor_args[2] >= 10
    /\ Cardinality({ctor_args[2], ctor_args[3], ctor_args[5][1], 500}) = 4

\* C10: nothing is deduplicated or merged: a returned frame has as many entries
\* for an agent as the agent sequence has occurrences of it, and as many
\* entries for a cell as there are non-absent occurrences standing on it,
\* whatever the Layer values are.
C10_OneEntryPerOccurrence ==
    Returned =>
        /\ Len(Frame) = Len(origin)
        /\ \A a \in Range(schedule) :
               NonAbsent(pre.agents[a]) =>
                   Cardinality({i \in 1..Len(Frame) : origin[i].agent = a})
                       = Cardinality({j \in 1..Len(schedule) : schedule[j] = a})
        /\ \A c \in Cells :
               Cardinality({i \in 1..Len(Frame) : pre.agents[origin[i].agent].pos = c})
                   = Cardinality({j \in VisibleIndices : AgentAt(j).pos = c})

C10_Witness ==
    /\ Returned
    /\ Len(Frame) = 3
    /\ schedule[1] = schedule[3]
    /\ schedule[1] # schedule[2]
    /\ AgentAt(1).pos = AgentAt(2).pos
    /\ heap[Frame[1]].Layer > heap[Frame[2]].Layer
    /\ heap[Frame[2]].Layer < heap[Frame[3]].Layer

====
